---- MODULE Spec2Model ----
(***************************************************************************)
(* OfflineStore.js (andygup/offline-editor-js, lib/edit): the offline edit *)
(* queue kept in localStorage, the replay of that queue when the           *)
(* connection comes back, and the index of replayed edits.                 *)
(*                                                                         *)
(* localStorage values are strings.  A string is modelled as a sequence of *)
(* symbols: the delimiter "|||" is one symbol, "," is one symbol, and a    *)
(* piece of JSON text is one symbol.  split and the usual concatenations   *)
(* are computed on those sequences.                                        *)
(*                                                                         *)
(* Sizes are counted in units of 0.25 MB; the Date field of an index       *)
(* object is left out.                                                     *)
(***************************************************************************)
EXTENDS Integers, Sequences, FiniteSets, TLC

VARIABLES
    store,      \* localStorage[STORAGE_KEY]: Null, or the queue string
    index,      \* localStorage[INDEX_KEY]: Null, or the index string
    internet,   \* Offline.state
    listener,   \* this._reestablishedInternetListener (Null or 1)
    handlers,   \* number of onlineStatusHandler functions registered on document
    pending,    \* layer.applyEdits calls issued and not yet answered, in issue order
    issued,     \* number of layer.applyEdits calls issued so far
    last,       \* what the last handler run did: its name and outputs
    scene,      \* how far a scenario a claim describes has come
    watch,      \* the handlers recorded in last and the scenarios followed in scene
    other       \* the length of the other items the page keeps in localStorage

vars == <<store, index, internet, listener, handlers, pending, issued, last, scene, watch, other>>

-----------------------------------------------------------------------------
(* Bounds of the model *)

\* most layer.applyEdits calls issued in one behaviour; it bounds the calls in
\* flight and the index objects written as well.  (The queue needs no bound:
\* LOCAL_STORAGE_MAX_LIMIT bounds it.)
MaxCalls == 2

\* the longest queue a removal is applied to when the removals are taken alone
MaxLen == 3

-----------------------------------------------------------------------------
(* Values *)

\* what localStorage.getItem returns for a missing item (no string has this symbol)
Null == <<[sym |-> "null"]>>

\* TOKEN : "|||"
TOKEN == [sym |-> "|||"]

\* the "," Array.prototype.toString puts between elements
COMMA == [sym |-> ","]

\* LOCAL_STORAGE_MAX_LIMIT : 4.75 MB, in units of 0.25 MB
LOCAL_STORAGE_MAX_LIMIT == 19

\* the values of this.enum()
ADD == "add"
UPDATE == "update"
DELETE == "delete"

\* graphic.attributes: null, a plain object, an object whose string field holds
\* the characters "|||", or an object Hydrate cannot stringify
AttrNull == [kind |-> "null", objectid |-> 0, name |-> ""]
AttrObj(id) == [kind |-> "obj", objectid |-> id, name |-> "a"]
AttrBar(id) == [kind |-> "obj", objectid |-> id, name |-> "a|||b"]
AttrCyclic == [kind |-> "cyclic", objectid |-> 0, name |-> ""]

\* an edit request: (graphic, layer, enumValue); len is the length of the
\* geometry's JSON text in units of 0.25 MB
Edit(op, gtype, attrs, len) == [enumValue |-> op, layer |-> 1, geometry |-> [type |-> gtype, len |-> len, coords |-> <<0, 0>>], attributes |-> attrs]

\* the edit requests the host makes
Edits ==
    { Edit(ADD, "point", AttrObj(1), 1),
      Edit(UPDATE, "polyline", AttrNull, 9),
      Edit(DELETE, "polygon", AttrBar(2), 9) }

NoEdit == Edit("none", "none", AttrNull, 0)

\* the object ids the feature service hands out
ObjectIds == {101}

\* this.layers: the layerIds of the editable feature layers of the map
Layers == {1}

-----------------------------------------------------------------------------
(* Strings *)

\* the characters of a symbol, in units of 0.25 MB: only geometry text counts
CharLen(c) == IF c.sym \in {"json", "part1"} THEN c.v.geometry.len ELSE 0

RECURSIVE StrLen(_)
StrLen(s) == IF s = <<>> THEN 0 ELSE CharLen(Head(s)) + StrLen(Tail(s))

\* position of the first TOKEN of s, 0 when there is none
RECURSIVE FirstToken(_, _)
FirstToken(s, i) ==
    IF i > Len(s) THEN 0
    ELSE IF s[i] = TOKEN THEN i
    ELSE FirstToken(s, i + 1)

\* String.prototype.split(TOKEN): "a|||b|||" gives <<"a", "b", "">>
RECURSIVE Split(_)
Split(s) ==
    LET k == FirstToken(s, 1) IN
    IF k = 0 THEN <<s>>
    ELSE <<SubSeq(s, 1, k - 1)>> \o Split(SubSeq(s, k + 1, Len(s)))

\* Array.prototype.toString: the elements joined by ","
RECURSIVE ArrayToString(_)
ArrayToString(arr) ==
    IF arr = <<>> THEN <<>>
    ELSE IF Len(arr) = 1 THEN arr[1]
    ELSE arr[1] \o <<COMMA>> \o ArrayToString(Tail(arr))

\* JSON.parse(segment) returns: the segment is one whole JSON text
Parses(seg) ==
    \/ Len(seg) = 1 /\ seg[1].sym \in {"json", "index"}
    \/ /\ Len(seg) = 3
       /\ seg[1].sym = "part1" /\ seg[2] = TOKEN /\ seg[3].sym = "part2"
       /\ seg[1].v = seg[3].v

\* the value JSON.parse(segment) returns
JSONparse(seg) == seg[1].v

-----------------------------------------------------------------------------
(* Mutation codec *)

\* this._hydrate.stringify(attributes) throws (the attributes cannot be written)
HydrateThrows(attrs) == attrs.kind = "cyclic"

\* the attributes field of the _jsonGraphicsObject that _serializeGraphic fills:
\* null stays null, a stringified object is a string, and after a caught
\* exception q is undefined
JsonAttributes(attrs) ==
    IF attrs.kind = "null" THEN [t |-> "null", objectid |-> 0, name |-> ""]
    ELSE IF HydrateThrows(attrs) THEN [t |-> "undefined", objectid |-> 0, name |-> ""]
    ELSE [t |-> "string", objectid |-> attrs.objectid, name |-> attrs.name]

\* _jsonGraphicsObject as _serializeGraphic fills it (date stays null)
JsonGraphicsObject(g) == [layer |-> g.layer, enumValue |-> g.enumValue, geometry |-> g.geometry, attributes |-> JsonAttributes(g.attributes)]

\* JSON.stringify(json): one JSON text; the characters "|||" of a string value
\* are written as they are, so such a text reads as two pieces around a TOKEN
JSONstringify(json) ==
    IF json.attributes.t = "string" /\ json.attributes.name = "a|||b"
    THEN <<[sym |-> "part1", v |-> json], TOKEN, [sym |-> "part2", v |-> json]>>
    ELSE <<[sym |-> "json", v |-> json]>>

\* _serializeGraphic(graphic, layer, enumValue)
_serializeGraphic(g) == JSONstringify(JsonGraphicsObject(g)) \o <<TOKEN>>

\* _serializeGraphicNoToken(graphic, layer, enumValue)
_serializeGraphicNoToken(g) == JSONstringify(JsonGraphicsObject(g))

\* _deserializeGraphic(item) throws: JSON.parse(item) fails, or
\* JSON.parse(jsonItem.attributes) is JSON.parse(undefined)
DeserializeThrows(item) == ~Parses(item) \/ JSONparse(item).attributes.t = "undefined"

\* finalGeom.addPath / addRing for every path or ring of the parsed geometry
RECURSIVE AddParts(_, _)
AddParts(finalGeom, parts) ==
    IF parts = <<>> THEN finalGeom ELSE AddParts(Append(finalGeom, Head(parts)), Tail(parts))

\* a variant of FinalGeom whose switch has no case for polygons
FinalGeomNoPolygon(geometry) ==
    CASE geometry.type = "polyline" -> [type |-> "polyline", len |-> geometry.len, coords |-> AddParts(<<>>, geometry.coords)]
      [] geometry.type = "point" -> [type |-> "point", len |-> geometry.len, coords |-> <<geometry.coords[1], geometry.coords[2]>>]
      [] OTHER -> [type |-> "null", len |-> 0, coords |-> <<>>]

\* the switch of _deserializeGraphic on geometry.type; finalGeom stays null
\* for any other type
FinalGeom(geometry) ==
    CASE geometry.type = "polyline" -> [type |-> "polyline", len |-> geometry.len, coords |-> AddParts(<<>>, geometry.coords)]
      [] geometry.type = "point" -> [type |-> "point", len |-> geometry.len, coords |-> <<geometry.coords[1], geometry.coords[2]>>]
      [] geometry.type = "polygon" -> [type |-> "polygon", len |-> geometry.len, coords |-> AddParts(<<>>, geometry.coords)]
      [] OTHER -> [type |-> "null", len |-> 0, coords |-> <<>>]

\* _deserializeGraphic(item): {graphic, layer, enumValue}, in the shape of an edit
_deserializeGraphic(item) ==
    LET jsonItem == JSONparse(item)
        a == jsonItem.attributes
    IN  [ enumValue |-> jsonItem.enumValue,
          layer |-> jsonItem.layer,
          geometry |-> FinalGeom(jsonItem.geometry),
          attributes |-> IF a.t = "null" THEN AttrNull
                         ELSE [kind |-> "obj", objectid |-> a.objectid, name |-> a.name] ]

\* the test both loops make before they look at a segment: defined, not empty
NotEmpty(item) == Len(item) > 0

\* getStore(): the decoded graphics of the queue; Null when there is no queue.
\* threw: _deserializeGraphic threw on a segment
RECURSIVE DecodeAll(_)
DecodeAll(split) ==
    IF split = <<>> THEN <<>>
    ELSE IF NotEmpty(Head(split)) THEN <<_deserializeGraphic(Head(split))>> \o DecodeAll(Tail(split))
    ELSE DecodeAll(Tail(split))

getStore(data) ==
    IF data = Null THEN [isNull |-> TRUE, threw |-> FALSE, graphicsArr |-> <<>>]
    ELSE LET split == Split(data)
             bad == \E i \in 1..Len(split) : NotEmpty(split[i]) /\ DeserializeThrows(split[i])
         IN  [isNull |-> FALSE, threw |-> bad, graphicsArr |-> IF bad THEN <<>> ELSE DecodeAll(split)]

-----------------------------------------------------------------------------
(* Pending queue in localStorage *)

\* a JavaScript boolean field that starts as null
Tri(b) == IF b THEN "true" ELSE "false"

\* a variant of _setTempLocalStore whose failed setItem has written the string
SetItemWritesAnyway(cur, serializedGraphic, ok) == [store |-> serializedGraphic, success |-> ok]

\* _setTempLocalStore(serializedGraphic) on the stored string cur; ok: setItem
\* does not throw.  A setItem that throws leaves the item as it was.
_setTempLocalStore(cur, serializedGraphic, ok) == [store |-> IF ok THEN serializedGraphic ELSE cur, success |-> ok]

\* the loop of _updateExistingLocalStore: some segment equals the candidate
\* without its last three characters
DupeFlag(localStore, serializedGraphic) ==
    LET split == Split(localStore)
        sub == SubSeq(serializedGraphic, 1, Len(serializedGraphic) - 1)
    IN  \E i \in 1..Len(split) : NotEmpty(split[i]) /\ sub = split[i]

\* _updateExistingLocalStore(serializedGraphic): the _duplicateLocalStorageValue
\* it returns, the stored string afterwards, and whether setItem was called
_updateExistingLocalStore(localStore, serializedGraphic, ok) ==
    IF ~DupeFlag(localStore, serializedGraphic)
    THEN LET setValue == _setTempLocalStore(localStore, localStore \o serializedGraphic, ok)
         IN  [store |-> setValue.store, success |-> Tri(setValue.success), duplicate |-> "false", wrote |-> TRUE]
    ELSE [store |-> localStore, success |-> "null", duplicate |-> "true", wrote |-> FALSE]

\* _addToLocalStore(graphic, layer, enumValue, callback): what callback gets as
\* its second argument, and the stored string afterwards
_addToLocalStore(arr, g, ok) ==
    LET serializedGraphic == _serializeGraphic(g) IN
    IF arr = Null
    THEN LET setAttempt == _setTempLocalStore(arr, serializedGraphic, ok)
         IN  [store |-> setAttempt.store, success |-> Tri(setAttempt.success), duplicate |-> "false", wrote |-> TRUE]
    ELSE _updateExistingLocalStore(arr, serializedGraphic, ok)

\* a variant of Splice without its second argument: splice(i) removes
\* everything from i on
SpliceToEnd(arr, i) == SubSeq(arr, 1, i - 1)

\* Array.prototype.splice(i, 1)
Splice(arr, i) == SubSeq(arr, 1, i - 1) \o SubSeq(arr, i + 1, Len(arr))

\* _reserializeGraphicsArray(array): empty segments and segments JSON.parse
\* rejects are left out, every other segment is followed by TOKEN
RECURSIVE _reserializeGraphicsArray(_)
_reserializeGraphicsArray(array) ==
    IF array = <<>> THEN <<>>
    ELSE LET segment == Head(array) IN
         IF NotEmpty(segment) /\ Parses(segment)
         THEN segment \o <<TOKEN>> \o _reserializeGraphicsArray(Tail(array))
         ELSE _reserializeGraphicsArray(Tail(array))

\* the index of the first segment the loop of _deleteItemInLocalStore finds
\* equal to entry, 0 when there is none
FirstEqual(splitStore, entry) ==
    LET hits == {i \in 1..Len(splitStore) : NotEmpty(splitStore[i]) /\ splitStore[i] = entry}
    IN  IF hits = {} THEN 0 ELSE CHOOSE i \in hits : \A j \in hits : i <= j

\* the rewrite both removals make once they found their segment at k:
\* splice, re-serialize, removeItem, then setItem (ok: it does not throw)
Rewrite(splitStore, k, ok) ==
    LET newArr == _reserializeGraphicsArray(Splice(splitStore, k))
        setItem == _setTempLocalStore(Null, newArr, ok)
    IN  [store |-> setItem.store, success |-> setItem.success]

\* _deleteItemInLocalStore(entry): the stored string afterwards and the result
_deleteItemInLocalStore(localStore, entry, ok) ==
    IF localStore = Null THEN [store |-> localStore, success |-> FALSE]
    ELSE LET splitStore == Split(localStore)
             k == FirstEqual(splitStore, entry)
         IN  IF k = 0 THEN [store |-> localStore, success |-> FALSE]
             ELSE Rewrite(splitStore, k, ok)

\* what the loop of _deleteObjectIdInLocalStore does with one segment:
\* JSON.parse(segment) or JSON.parse(item.attributes) throws, or
\* q.hasOwnProperty throws on a null q, or the objectid is the one looked for
ObjectIdStep(test, objectId) ==
    IF ~NotEmpty(test) THEN "next"
    ELSE IF ~Parses(test) THEN "throw"
    ELSE IF JSONparse(test).attributes.t # "string" THEN "throw"
    ELSE IF JSONparse(test).attributes.objectid = objectId THEN "found"
    ELSE "next"

\* _deleteObjectIdInLocalStore(objectId, callback): the stored string
\* afterwards; threw: an exception left the function before callback;
\* success: the argument of callback
_deleteObjectIdInLocalStore(localStore, objectId, ok) ==
    IF localStore = Null THEN [store |-> localStore, threw |-> FALSE, success |-> FALSE]
    ELSE LET splitStore == Split(localStore)
             stops == {i \in 1..Len(splitStore) : ObjectIdStep(splitStore[i], objectId) # "next"}
             k == IF stops = {} THEN 0 ELSE CHOOSE i \in stops : \A j \in stops : i <= j
         IN  IF k = 0 THEN [store |-> localStore, threw |-> FALSE, success |-> FALSE]
             ELSE IF ObjectIdStep(splitStore[k], objectId) = "throw"
             THEN [store |-> localStore, threw |-> TRUE, success |-> FALSE]
             ELSE LET r == Rewrite(splitStore, k, ok)
                  IN  [store |-> r.store, threw |-> FALSE, success |-> r.success]

-----------------------------------------------------------------------------
(* Index of replayed edits *)

\* new this._indexObject(layerId, id, enumType, success, geoType, date)
_indexObject(layerId, id, enumType, success, geoType) == [id |-> id, layerId |-> layerId, type |-> enumType, success |-> success, geometryType |-> geoType]

\* getLocalStoreIndex() when the item exists: the array split returns
getLocalStoreIndex(localStore) == Split(localStore)

\* _setItemLocalStoreIndexObject(indexObject): the index string afterwards.
\* localStore is the array getLocalStoreIndex returns, so localStore + mIndex
\* is its toString() followed by mIndex.  ok: setItem does not throw.
_setItemLocalStoreIndexObject(cur, indexObject, ok) ==
    LET mIndex == <<[sym |-> "index", v |-> indexObject]>>
        written == IF cur = Null THEN mIndex \o <<TOKEN>>
                   ELSE ArrayToString(getLocalStoreIndex(cur)) \o mIndex \o <<TOKEN>>
    IN  [index |-> IF ok THEN written ELSE cur, success |-> ok]

\* what the loops of _getItemLocalStoreIndex and _isItemLocalStoreIndex do
\* with one segment: JSON.parse(split[property]) comes before any test, and
\* throws on the empty string too
IndexStep(seg, objectId) ==
    IF ~Parses(seg) THEN "throw"
    ELSE IF JSONparse(seg).id = objectId THEN "found"
    ELSE "next"

\* _getItemLocalStoreIndex(objectId): the item returned ("null": null), or
\* threw: an exception left the function
_getItemLocalStoreIndex(localStore, objectId) ==
    IF localStore = Null THEN [item |-> "null", threw |-> FALSE]
    ELSE LET split == Split(localStore)
             stops == {i \in 1..Len(split) : IndexStep(split[i], objectId) # "next"}
             k == IF stops = {} THEN 0 ELSE CHOOSE i \in stops : \A j \in stops : i <= j
         IN  IF k = 0 THEN [item |-> "null", threw |-> FALSE]
             ELSE IF IndexStep(split[k], objectId) = "throw" THEN [item |-> "none", threw |-> TRUE]
             ELSE [item |-> "found", threw |-> FALSE]

\* _isItemLocalStoreIndex(objectId): the same loop, returning a boolean
_isItemLocalStoreIndex(localStore, objectId) ==
    LET r == _getItemLocalStoreIndex(localStore, objectId)
    IN  [item |-> IF r.threw THEN "none" ELSE Tri(r.item = "found"), threw |-> r.threw]

-----------------------------------------------------------------------------
(* Admission *)

\* getlocalStorageUsed(): the length of every item of localStorage, the
\* queue string, the index string and whatever else the page keeps there
getlocalStorageUsed(q, ix, rest) == StrLen(q) + StrLen(ix) + rest

\* this.utils.apprxGraphicSize(graphic)
apprxGraphicSize(g) == g.geometry.len

\* a variant of QuotaBranch that also turns away an edit that fills the
\* storage exactly
QuotaBranchAtLimit(grSize, mb) ==
    IF grSize + mb >= LOCAL_STORAGE_MAX_LIMIT THEN "tooBig"
    ELSE IF mb > LOCAL_STORAGE_MAX_LIMIT THEN "almostOver"
    ELSE "none"

\* the two tests at the head of _applyEdits: which alert is shown, "none" when
\* the edit goes on
QuotaBranch(grSize, mb) ==
    IF grSize + mb > LOCAL_STORAGE_MAX_LIMIT THEN "tooBig"
    ELSE IF mb > LOCAL_STORAGE_MAX_LIMIT THEN "almostOver"
    ELSE "none"

-----------------------------------------------------------------------------
(* Feature service calls and replay *)

\* one layer.applyEdits call in flight, as _layerEditManager issued it: the
\* graphic and operation sent, which mCallback it was given, and for the
\* callback of _reestablishedInternet the values its variables item and
\* graphic have when the answer arrives
Call(e, mCallback, item, graphic) == [edit |-> e, mCallback |-> mCallback, item |-> item, graphic |-> graphic]

\* getGraphicsLayerById(id) finds a layer
LayerFound(id) == id \in Layers

\* the loop of _reestablishedInternet from segment i on. acc.item and
\* acc.graphic are the function's variables item and graphic, acc.issued the
\* graphics handed to _layerEditManager, acc.threw an exception that ended it
RECURSIVE ReplayLoop(_, _, _)
ReplayLoop(split, i, acc) ==
    IF i > Len(split) THEN acc
    ELSE LET item == split[i] IN
         IF ~NotEmpty(item) THEN ReplayLoop(split, i + 1, [acc EXCEPT !.item = item])
         ELSE IF DeserializeThrows(item) THEN [acc EXCEPT !.item = item, !.threw = TRUE]
         ELSE LET graphic == _deserializeGraphic(item) IN
              IF ~LayerFound(graphic.layer)
              THEN [acc EXCEPT !.item = item, !.graphic = graphic, !.threw = TRUE]
              ELSE ReplayLoop(split, i + 1, [acc EXCEPT !.item = item, !.graphic = graphic, !.issued = Append(acc.issued, graphic)])

\* _reestablishedInternet(): the calls it issues, and whether it threw
_reestablishedInternet(data) ==
    LET none == [item |-> <<>>, graphic |-> NoEdit, issued |-> <<>>, threw |-> FALSE]
        acc == IF data = Null THEN none ELSE ReplayLoop(Split(data), 1, none)
    IN  [calls |-> [j \in 1..Len(acc.issued) |-> Call(acc.issued[j], "replay", acc.item, acc.graphic)],
         issued |-> acc.issued, threw |-> acc.threw]

\* the switch of _layerEditManager: the argument of layer.applyEdits that
\* carries the graphic
Operation(value) ==
    CASE value = DELETE -> "deletes"
      [] value = ADD -> "adds"
      [] value = UPDATE -> "updates"
      [] OTHER -> "none"

\* the test of the success function _layerEditManager passes to
\* layer.applyEdits, for each operation: mCallback is called.  (count is the
\* global _loadScripts sets, a number.)
CallbackCalled(value, addResult, updateResult, deleteResult) ==
    CASE value = DELETE -> Len(deleteResult) > 0
      [] value = ADD -> Len(addResult) > 0
      [] value = UPDATE -> Len(deleteResult) > 0
      [] OTHER -> FALSE

\* a variant of ErrorCallsBack in which the call of mCallback goes through
ErrorCallsBackAnyway(value) == TRUE

\* the error function _layerEditManager passes to layer.applyEdits calls
\* mCallback: it does not, deleteResult[0] (addResult, updateResult) is not in
\* its scope and evaluating it throws a ReferenceError
ErrorCallsBack(value) == FALSE

\* the results the feature service answers a call for one graphic with
Results(value, kind, success, id) == IF value = kind THEN <<[success |-> success, objectId |-> id]>> ELSE <<>>

\* the function _reestablishedInternet hands to _layerEditManager, run when
\* the call is answered: it reads the variables item and graphic of the
\* _reestablishedInternet run that issued the call
ReplayCallback(q, ix, call, success, id, ok1, ok2) ==
    LET indexObject == _indexObject(call.graphic.layer, id, call.graphic.enumValue, success, call.graphic.geometry.type)
        deleteTempItem == _deleteItemInLocalStore(q, call.item, ok1)
        setIndex == _setItemLocalStoreIndexObject(ix, indexObject, ok2)
    IN  [store |-> deleteTempItem.store, index |-> setIndex.index]

-----------------------------------------------------------------------------
(* State *)

\* one call of a callback: fn(count, success, id).  fn: "callback" is the
\* function the host gave, "replay" the function of _reestablishedInternet,
\* "online" the logging function of _applyEdits.  obj: the second argument is
\* a _duplicateLocalStorageValue (else a boolean, in success)
Cb(fn, obj, success, duplicate, id) == [fn |-> fn, count |-> 0, obj |-> obj, success |-> success, duplicate |-> duplicate, id |-> id]

\* the record of a handler run: its name, the alert it showed, the callback
\* calls it made (for an answered call: which mCallback it had), the value it
\* returned, whether setItem was called for the queue, whether an exception
\* ended it
Last(op, alert, cb, ret, wrote, threw) ==
    IF op \in watch
    THEN [op |-> op, alert |-> alert, cb |-> cb, ret |-> ret, wrote |-> wrote, threw |-> threw]
    ELSE [op |-> "other", alert |-> "none", cb |-> <<>>, ret |-> "none", wrote |-> FALSE, threw |-> FALSE]

\* the names of the handlers
Handlers == {"init", "applyEdits", "up", "down", "complete", "error", "deleteItem", "deleteObjectId"}

\* the segments of the queue string that hold something
Segments(q) == IF q = Null THEN <<>> ELSE SelectSeq(Split(q), NotEmpty)

\* n copies of a sequence, one after the other
RECURSIVE Repeat(_, _)
Repeat(sq, n) == IF n = 0 THEN <<>> ELSE sq \o Repeat(sq, n - 1)

TypeOK ==
    /\ internet \in {"up", "down"}
    /\ listener \in {0, 1}
    /\ handlers \in Nat
    /\ issued \in 0..MaxCalls
    /\ Len(pending) <= issued
    /\ scene.stage \in {"off", "replaying", "up1", "failed", "down", "up2", "loaded", "sent"}
    /\ other \in Nat
    /\ watch \subseteq Handlers \cup {"pass", "retry", "restart", "getItem", "isItem", "getStore"}

\* the records of the index string: what getLocalStoreIndex() lists and
\* JSON.parse accepts
IndexRecords(ix) == IF ix = Null THEN <<>> ELSE SelectSeq(getLocalStoreIndex(ix), LAMBDA seg : NotEmpty(seg) /\ Parses(seg))

\* the edits of the entries of a queue string that _deserializeGraphic reads
Decodable(q) ==
    LET seg == SelectSeq(Segments(q), LAMBDA x : Parses(x) /\ ~DeserializeThrows(x))
    IN  [i \in 1..Len(seg) |-> _deserializeGraphic(seg[i])]

\* no scenario is under way
Off == [stage |-> "off", n |-> 0, done |-> 0, q |-> <<>>, ix |-> <<>>, m |-> NoEdit, again |-> FALSE]

\* the queue string holds whole records only, n >= 1 of them, and run is a
\* replay of all of them by the one registered handler, with no other call
\* in flight
FullReplay(run) ==
    /\ handlers = 1 /\ listener = 1
    /\ pending = <<>>
    /\ ~run.threw
    /\ Len(run.issued) >= 1
    /\ Len(run.issued) = Len(Segments(store))

\* scene after an 'up' event that made the replay run
SceneUp(run) ==
    IF "pass" \in watch
    THEN IF FullReplay(run)
         THEN [Off EXCEPT !.stage = "replaying", !.n = Len(run.issued), !.q = store, !.ix = index]
         ELSE Off
    ELSE IF "retry" \in watch
    THEN IF scene.stage = "down"
         THEN [scene EXCEPT !.stage = "up2", !.again = (run.issued = <<scene.m>>)]
         ELSE IF FullReplay(run) /\ Len(run.issued) = 1
         THEN [Off EXCEPT !.stage = "up1", !.q = store, !.ix = index, !.m = run.issued[1]]
         ELSE Off
    ELSE IF "restart" \in watch /\ scene.stage = "loaded"
    THEN [scene EXCEPT !.stage = "sent", !.again = (handlers = 1 /\ Decodable(scene.q) = run.issued)]
    ELSE Off

\* scene after a 'down' event
SceneDown ==
    IF "pass" \in watch THEN scene
    ELSE IF "retry" \in watch /\ scene.stage = "failed" THEN [scene EXCEPT !.stage = "down"]
    ELSE IF "restart" \in watch /\ scene.stage = "loaded" THEN scene
    ELSE Off

\* scene after the page was loaded with Offline reporting state
SceneRestart(state) ==
    IF "restart" \in watch /\ store # Null /\ state # "up"
    THEN [Off EXCEPT !.stage = "loaded", !.q = store]
    ELSE Off

\* scene after a call was answered; fine: the answer says success and no
\* setItem threw while it was handled
SceneComplete(fine) ==
    IF "pass" \in watch /\ scene.stage = "replaying" /\ fine
    THEN [scene EXCEPT !.done = scene.done + 1]
    ELSE Off

\* scene after a call failed
SceneError ==
    IF "retry" \in watch /\ scene.stage = "up1" THEN [scene EXCEPT !.stage = "failed"]
    ELSE Off

\* a first visit of the page: nothing stored; _init finds no queue
Boot ==
    /\ store = Null
    /\ index = Null
    /\ internet \in {"up", "down"}
    /\ listener = 0
    /\ handlers = 0
    /\ pending = <<>>
    /\ issued = 0
    /\ last = Last("init", "none", <<>>, "none", FALSE, FALSE)
    /\ scene = Off
    /\ other = 0

\* every handler run is recorded
Init == watch = Handlers /\ Boot

-----------------------------------------------------------------------------
(* Handlers *)

\* a variant of _startOfflineListener without the test of
\* _reestablishedInternetListener: every call adds a handler
StartListenerEveryTime(l, h) == [listener |-> 1, handlers |-> h + 1]

\* _startOfflineListener(): the listener flag and the number of registered
\* handlers afterwards
_startOfflineListener(l, h) == IF l = 0 THEN [listener |-> 1, handlers |-> h + 1] ELSE [listener |-> l, handlers |-> h]

\* the outcomes of a localStorage.setItem call: it returns (TRUE) or throws
SetItemOutcomes(called) == IF called THEN BOOLEAN ELSE {TRUE}

\* a variant of QuotaReturn without the return: the listener gets armed
QuotaReturnArms(alert) ==
    /\ last' = Last("applyEdits", alert, <<Cb("callback", FALSE, "false", "none", 0)>>, "none", FALSE, FALSE)
    /\ scene' = Off
    /\ listener' = _startOfflineListener(listener, handlers).listener
    /\ handlers' = _startOfflineListener(listener, handlers).handlers
    /\ UNCHANGED <<store, index, internet, pending, issued, watch, other>>

\* _applyEdits when one of its two storage tests fails: the alert, then
\* callback(0,false,0), then return
QuotaReturn(alert) ==
    /\ last' = Last("applyEdits", alert, <<Cb("callback", FALSE, "false", "none", 0)>>, "none", FALSE, FALSE)
    /\ scene' = Off
    /\ UNCHANGED <<store, index, internet, listener, handlers, pending, issued, watch, other>>

\* _applyEdits with internet === false: _addToLocalStore, then
\* _startOfflineListener.  ok: the setItem of the insert does not throw
OfflineEdit(g, ok) ==
    LET setItem == _addToLocalStore(store, g, ok)
        l == _startOfflineListener(listener, handlers)
    IN  /\ store' = setItem.store
        /\ listener' = l.listener
        /\ handlers' = l.handlers
        /\ last' = Last("applyEdits", "none", <<Cb("callback", TRUE, setItem.success, setItem.duplicate, 0)>>, "none", setItem.wrote, FALSE)
        /\ scene' = Off
        /\ UNCHANGED <<index, internet, pending, issued, watch, other>>

\* a variant of OnlineEdit that sends nothing for an edit already in flight
OnlineEditOnce(g) ==
    /\ issued < MaxCalls
    /\ pending' = IF \E i \in 1..Len(pending) : pending[i].edit = g THEN pending
                  ELSE Append(pending, Call(g, "online", <<>>, NoEdit))
    /\ issued' = issued + 1
    /\ scene' = Off
    /\ last' = Last("applyEdits", "none", <<>>, "none", FALSE, FALSE)
    /\ UNCHANGED <<store, index, internet, listener, handlers, watch, other>>

\* _applyEdits with internet up: _layerEditManager with its own logging
\* function as mCallback
OnlineEdit(g) ==
    /\ issued < MaxCalls
    /\ pending' = Append(pending, Call(g, "online", <<>>, NoEdit))
    /\ issued' = issued + 1
    /\ scene' = Off
    /\ last' = Last("applyEdits", "none", <<>>, "none", FALSE, FALSE)
    /\ UNCHANGED <<store, index, internet, listener, handlers, watch, other>>

\* applyEdits(graphic, layer, enumValue, callback) with _applyEdits
applyEdits(g) ==
    LET grSize == apprxGraphicSize(g)
        mb == getlocalStorageUsed(store, index, other)
        alert == QuotaBranch(grSize, mb)
    IN  IF alert # "none" THEN QuotaReturn(alert)
        ELSE IF internet = "down"
        THEN \E ok \in SetItemOutcomes(_addToLocalStore(store, g, TRUE).wrote) : OfflineEdit(g, ok)
        ELSE OnlineEdit(g)

\* Offline fires 'up': the internetStatusChangeEvent with message true reaches
\* every registered onlineStatusHandler
Up ==
    LET run == IF store # Null THEN _reestablishedInternet(store)
               ELSE [calls |-> <<>>, issued |-> <<>>, threw |-> FALSE]
    IN  /\ issued + handlers * Len(run.calls) <= MaxCalls
        /\ internet' = "up"
        /\ pending' = pending \o Repeat(run.calls, handlers)
        /\ issued' = issued + handlers * Len(run.calls)
        /\ last' = Last("up", "none", <<>>, "none", FALSE, handlers > 0 /\ run.threw)
        /\ scene' = SceneUp(run)
        /\ UNCHANGED <<store, index, listener, handlers, watch, other>>

\* a variant of Down in which onlineStatusHandler does not test the message
DownReplays ==
    LET run == IF store # Null THEN _reestablishedInternet(store)
               ELSE [calls |-> <<>>, issued |-> <<>>, threw |-> FALSE]
    IN  /\ issued + handlers * Len(run.calls) <= MaxCalls
        /\ internet' = "down"
        /\ pending' = pending \o Repeat(run.calls, handlers)
        /\ issued' = issued + handlers * Len(run.calls)
        /\ last' = Last("down", "none", <<>>, "none", FALSE, FALSE)
        /\ scene' = SceneDown
        /\ UNCHANGED <<store, index, listener, handlers, watch, other>>

\* Offline fires 'down': onlineStatusHandler does nothing for message false
Down ==
    /\ internet' = "down"
    /\ last' = Last("down", "none", <<>>, "none", FALSE, FALSE)
    /\ scene' = SceneDown
    /\ UNCHANGED <<store, index, listener, handlers, pending, issued, watch, other>>

\* the feature service answers call i: the success function of
\* _layerEditManager runs with the result of the one graphic sent
Complete(i, success, id) ==
    LET call == pending[i]
        value == call.edit.enumValue
        called == CallbackCalled(value, Results(value, ADD, success, id), Results(value, UPDATE, success, id), Results(value, DELETE, success, id))
        cb == IF called THEN <<Cb(call.mCallback, FALSE, Tri(success), "none", id)>> ELSE <<>>
        replay == called /\ call.mCallback = "replay"
    IN  /\ pending' = Splice(pending, i)
        /\ last' = Last("complete", "none", cb, "none", FALSE, FALSE)
        /\ \E ok1 \in SetItemOutcomes(replay /\ FirstEqual(Split(store), call.item) # 0), ok2 \in SetItemOutcomes(replay) :
               LET r == ReplayCallback(store, index, call, success, id, ok1, ok2)
               IN  /\ store' = IF replay THEN r.store ELSE store
                   /\ index' = IF replay THEN r.index ELSE index
                   /\ scene' = SceneComplete(success /\ ok1 /\ ok2)
        /\ UNCHANGED <<internet, listener, handlers, issued, watch, other>>

\* call i fails: the error function of _layerEditManager runs
Error(i) ==
    LET call == pending[i]
        called == ErrorCallsBack(call.edit.enumValue)
        cb == IF called THEN <<Cb(call.mCallback, FALSE, "false", "none", 0)>> ELSE <<>>
        replay == called /\ call.mCallback = "replay"
    IN  /\ pending' = Splice(pending, i)
        /\ last' = Last("error", "none", cb, "none", FALSE, ~called)
        /\ \E ok1 \in SetItemOutcomes(replay /\ FirstEqual(Split(store), call.item) # 0), ok2 \in SetItemOutcomes(replay) :
               LET r == ReplayCallback(store, index, call, FALSE, 0, ok1, ok2)
               IN  /\ store' = IF replay THEN r.store ELSE store
                   /\ index' = IF replay THEN r.index ELSE index
        /\ scene' = SceneError
        /\ UNCHANGED <<internet, listener, handlers, issued, watch, other>>

\* the host calls _deleteItemInLocalStore(entry) with the text of an edit
DeleteItem(g) ==
    LET entry == _serializeGraphicNoToken(g) IN
    /\ \E ok \in SetItemOutcomes(store # Null /\ FirstEqual(Split(store), entry) # 0) :
           LET r == _deleteItemInLocalStore(store, entry, ok)
           IN  /\ store' = r.store
               /\ last' = Last("deleteItem", "none", <<>>, Tri(r.success), FALSE, FALSE)
    /\ scene' = Off
    /\ UNCHANGED <<index, internet, listener, handlers, pending, issued, watch, other>>

\* the host calls _deleteObjectIdInLocalStore(objectId, callback)
DeleteObjectId(objectId) ==
    /\ \E ok \in SetItemOutcomes(_deleteObjectIdInLocalStore(store, objectId, TRUE).success) :
           LET r == _deleteObjectIdInLocalStore(store, objectId, ok)
               cb == IF r.threw THEN <<>> ELSE <<Cb("callback", FALSE, Tri(r.success), "none", 0)>>
           IN  /\ store' = r.store
               /\ last' = Last("deleteObjectId", "none", cb, "none", FALSE, r.threw)
    /\ scene' = Off
    /\ UNCHANGED <<index, internet, listener, handlers, pending, issued, watch, other>>

\* the page is loaded again: memory is lost, localStorage stays, and _init
\* runs with the state Offline reports
Restart(state) ==
    LET run == IF store # Null /\ state = "up" THEN _reestablishedInternet(store)
               ELSE [calls |-> <<>>, issued |-> <<>>, threw |-> FALSE]
        l == IF store # Null /\ state # "up" THEN _startOfflineListener(0, 0)
             ELSE [listener |-> 0, handlers |-> 0]
    IN  /\ issued + Len(run.calls) <= MaxCalls
        /\ internet' = state
        /\ pending' = run.calls
        /\ issued' = issued + Len(run.calls)
        /\ listener' = l.listener
        /\ handlers' = l.handlers
        /\ last' = Last("init", "none", <<>>, "none", FALSE, run.threw)
        /\ scene' = SceneRestart(state)
        /\ UNCHANGED <<store, index, watch, other>>

\* the objectids the host asks to delete
HostObjectIds == {g.attributes.objectid : g \in {e \in Edits : e.attributes.kind = "obj"}}

Next ==
    \/ \E g \in Edits : applyEdits(g)
    \/ Up
    \/ Down
    \/ \E i \in 1..Len(pending), success \in BOOLEAN, id \in ObjectIds : Complete(i, success, id)
    \/ \E i \in 1..Len(pending) : Error(i)
    \/ \E g \in Edits : DeleteItem(g)
    \/ \E objectId \in HostObjectIds : DeleteObjectId(objectId)
    \/ \E state \in {"up", "down"} : Restart(state)

Spec == Init /\ [][Next]_vars

\* the objectids the host looks up in the index
FindIds == ObjectIds \cup {102}

\* the host calls _getItemLocalStoreIndex(objectId)
GetItem(objectId) ==
    LET r == _getItemLocalStoreIndex(index, objectId)
    IN  /\ last' = Last("getItem", "none", <<>>, r.item, FALSE, r.threw)
        /\ scene' = Off
        /\ UNCHANGED <<store, index, internet, listener, handlers, pending, issued, watch, other>>

\* the host calls _isItemLocalStoreIndex(objectId)
IsItem(objectId) ==
    LET r == _isItemLocalStoreIndex(index, objectId)
    IN  /\ last' = Last("isItem", "none", <<>>, r.item, FALSE, r.threw)
        /\ scene' = Off
        /\ UNCHANGED <<store, index, internet, listener, handlers, pending, issued, watch, other>>

\* the program with the lookups in the index, which change nothing
NextIndex ==
    \/ Next
    \/ \E objectId \in FindIds : GetItem(objectId)
    \/ \E objectId \in FindIds : IsItem(objectId)

InitIndex == watch = {"getItem", "isItem"} /\ Boot
SpecIndex == InitIndex /\ [][NextIndex]_vars

\* the same program, with the runs of some handlers recorded only
InitSubmit == watch = {"applyEdits"} /\ Boot
SpecSubmit == InitSubmit /\ [][Next]_vars

InitRemove == watch = {"deleteItem", "deleteObjectId"} /\ Boot
SpecRemove == InitRemove /\ [][Next]_vars

InitReplay == watch = {"init", "up", "down", "complete", "error"} /\ Boot
SpecReplay == InitReplay /\ [][Next]_vars

\* the same program, with one scenario followed in scene
InitPass == watch = {"pass"} /\ Boot
SpecPass == InitPass /\ [][Next]_vars

InitRetry == watch = {"retry"} /\ Boot
SpecRetry == InitRetry /\ [][Next]_vars

InitRestart == watch = {"init", "restart"} /\ Boot
SpecRestart == InitRestart /\ [][Next]_vars

\* the removals alone, applied to every queue of up to MaxLen different
\* records: the page was loaded offline with that queue stored, so _init
\* armed the listener
RebuildEdits ==
    { Edit(ADD, "point", AttrObj(1), 1),
      Edit(ADD, "point", AttrObj(2), 1),
      Edit(UPDATE, "polyline", AttrNull, 9),
      Edit(DELETE, "polygon", AttrObj(2), 1) }

RECURSIVE QueueString(_)
QueueString(gs) == IF gs = <<>> THEN <<>> ELSE _serializeGraphic(Head(gs)) \o QueueString(Tail(gs))

Queues ==
    LET all == UNION {[1..n -> RebuildEdits] : n \in 1..MaxLen}
    IN  {gs \in all : \A i, j \in 1..Len(gs) : i # j => gs[i] # gs[j]}

InitRebuild ==
    /\ watch = {"deleteItem", "deleteObjectId"}
    /\ store \in {QueueString(gs) : gs \in Queues}
    /\ index = Null
    /\ internet = "down"
    /\ listener = 1 /\ handlers = 1
    /\ pending = <<>> /\ issued = 0
    /\ last = Last("init", "none", <<>>, "none", FALSE, FALSE)
    /\ scene = Off
    /\ other = 0

NextRebuild ==
    \/ \E g \in RebuildEdits : DeleteItem(g)
    \/ \E objectId \in HostObjectIds : DeleteObjectId(objectId)

SpecRebuild == InitRebuild /\ [][NextRebuild]_vars

\* the codec alone: one graphic of any geometry type, operation, layer and
\* attributes is submitted offline into an empty queue, and 'up' events
\* replay the queue
LayerIds == {1, 2}

Coords == {<<0, 0>>, <<1, 2>>}

Graphics ==
    { [Edit(op, gtype, attrs, 1) EXCEPT !.layer = l, !.geometry.coords = c] :
        op \in {ADD, UPDATE, DELETE}, gtype \in {"point", "polyline", "polygon"},
        attrs \in {AttrNull, AttrObj(1), AttrBar(2)}, l \in LayerIds, c \in Coords }

InitCodec == watch = {"applyEdits"} /\ Boot /\ internet = "down"

NextCodec ==
    \/ \E g \in Graphics : store = Null /\ internet = "down" /\ applyEdits(g)
    \/ store # Null /\ Up

SpecCodec == InitCodec /\ [][NextCodec]_vars

\* edits on a layer that is not among this.layers (layerId 2: a layer the
\* map does not list as an editable feature layer) next to edits on layer 1
LayerEdits ==
    { [Edit(ADD, "point", AttrObj(1), 1) EXCEPT !.layer = 2],
      Edit(ADD, "point", AttrObj(2), 1),
      Edit(UPDATE, "polyline", AttrNull, 1) }

InitLayer == watch = {"up", "complete", "error"} /\ Boot

NextLayer ==
    \/ \E g \in LayerEdits : applyEdits(g)
    \/ Up
    \/ Down
    \/ \E i \in 1..Len(pending), success \in BOOLEAN, id \in ObjectIds : Complete(i, success, id)
    \/ \E i \in 1..Len(pending) : Error(i)

SpecLayer == InitLayer /\ [][NextLayer]_vars

\* the lengths of the other items of localStorage, in units of 0.25 MB: none,
\* some, and more than LOCAL_STORAGE_MAX_LIMIT
OtherSizes == {0, 10, 20}

\* the page writes or removes items of its own in localStorage
SetOther(n) ==
    /\ other' = n
    /\ last' = Last("other", "none", <<>>, "none", FALSE, FALSE)
    /\ scene' = Off
    /\ UNCHANGED <<store, index, internet, listener, handlers, pending, issued, watch>>

InitQuota == watch = {"applyEdits"} /\ Boot

NextQuota ==
    \/ \E g \in Edits : applyEdits(g)
    \/ \E n \in OtherSizes : SetOther(n)
    \/ Up
    \/ Down

SpecQuota == InitQuota /\ [][NextQuota]_vars

\* the host calls getStore()
GetStore ==
    LET r == getStore(store)
    IN  /\ last' = Last("getStore", "none", <<>>, IF r.isNull THEN "null" ELSE "array", FALSE, r.threw)
        /\ scene' = Off
        /\ UNCHANGED <<store, index, internet, listener, handlers, pending, issued, watch, other>>

\* edits whose attributes Hydrate cannot stringify next to edits it can
EncodeEdits ==
    { Edit(ADD, "point", AttrCyclic, 1),
      Edit(ADD, "point", AttrObj(1), 1),
      Edit(UPDATE, "polyline", AttrNull, 1) }

InitEncode == watch = {"applyEdits", "getStore", "up"} /\ Boot

NextEncode ==
    \/ \E g \in EncodeEdits : applyEdits(g)
    \/ Up
    \/ Down
    \/ \E i \in 1..Len(pending), success \in BOOLEAN, id \in ObjectIds : Complete(i, success, id)
    \/ \E i \in 1..Len(pending) : Error(i)
    \/ GetStore

SpecEncode == InitEncode /\ [][NextEncode]_vars

-----------------------------------------------------------------------------
(* Admission and insert: properties of applyEdits steps *)

\* the storage in use before a step, and the size of the edit
Occupancy == getlocalStorageUsed(store, index, other)

\* C5: a submit is turned away exactly when the storage in use plus the size
\* of the edit is above LOCAL_STORAGE_MAX_LIMIT; at or below the limit it is
\* taken, offline into the queue (the insert callback runs) and online to the
\* feature service (one more call), whatever the connectivity is
C5_BudgetEnforcement ==
    [][\A g \in Edits : (last'.op = "applyEdits" /\ applyEdits(g)) =>
           IF Occupancy + apprxGraphicSize(g) > LOCAL_STORAGE_MAX_LIMIT
           THEN last'.alert # "none" /\ store' = store /\ pending' = pending
           ELSE /\ last'.alert = "none"
                /\ internet = "down" => Len(last'.cb) = 1 /\ last'.cb[1].obj
                /\ internet = "up" => pending' = Append(pending, Call(g, "online", <<>>, NoEdit))]_vars

\* an offline submit that filled the storage exactly to the limit was taken
C5_Witness ==
    /\ last.op = "applyEdits" /\ last.alert = "none"
    /\ last.wrote /\ last.cb[1].success = "true"
    /\ Occupancy = LOCAL_STORAGE_MAX_LIMIT

\* C6: a submit turned away by the storage test leaves the queue string and
\* the index string as they were, issues no call, does not arm the listener,
\* and calls the callback once, with false
C6_RejectedChangesNothing ==
    [][(last'.op = "applyEdits" /\ last'.alert # "none") =>
           /\ store' = store /\ index' = index
           /\ pending' = pending /\ issued' = issued
           /\ listener' = listener /\ handlers' = handlers
           /\ Len(last'.cb) = 1
           /\ last'.cb[1].fn = "callback" /\ ~last'.cb[1].obj /\ last'.cb[1].success = "false"]_vars

\* a submit was turned away while nothing was armed and the queue held edits
C6_Witness ==
    /\ last.op = "applyEdits" /\ last.alert # "none"
    /\ listener = 0 /\ Len(Segments(store)) >= 2

\* C10: an offline insert whose setItem throws, into an absent queue or
\* onto an existing one, reports success false and duplicate false and
\* leaves the queue string as it was
C10_InsertWriteFailure ==
    [][\A g \in Edits :
           (/\ last'.op = "applyEdits"
            /\ QuotaBranch(apprxGraphicSize(g), Occupancy) = "none"
            /\ internet = "down"
            /\ _addToLocalStore(store, g, TRUE).wrote
            /\ OfflineEdit(g, FALSE))
           => /\ store' = store
              /\ last'.cb = <<Cb("callback", TRUE, "false", "false", 0)>>]_vars

\* an append to an existing queue failed in setItem
C10_Witness ==
    /\ last.op = "applyEdits" /\ last.wrote
    /\ last.cb[1].success = "false" /\ last.cb[1].duplicate = "false"
    /\ Len(Segments(store)) >= 1

\* the queue string holds the record of g, as an insert wrote it
Queued(q, g) ==
    LET rec == _serializeGraphic(g)
    IN  q # Null /\ \E p \in 1..Len(q) :
            /\ p + Len(rec) - 1 <= Len(q)
            /\ SubSeq(q, p, p + Len(rec) - 1) = rec
            /\ p = 1 \/ q[p - 1] = TOKEN

\* C3: an offline insert of an edit whose record the queue already holds
\* reports duplicate true, calls no setItem and leaves the queue string as it is
C3_InsertIdempotence ==
    [][\A g \in Edits :
           (/\ last'.op = "applyEdits"
            /\ Queued(store, g)
            /\ QuotaBranch(apprxGraphicSize(g), Occupancy) = "none"
            /\ internet = "down"
            /\ \E ok \in BOOLEAN : OfflineEdit(g, ok))
           => /\ last'.cb[1].duplicate = "true"
              /\ ~last'.wrote
              /\ store' = store]_vars

\* C4: the queue never holds two entries with the same text
C4_NoDuplicates ==
    LET seg == Segments(store)
    IN  \A i, j \in 1..Len(seg) : i < j => seg[i] # seg[j]

-----------------------------------------------------------------------------
(* Removal *)

\* C8: a removal by content that finds its entry and whose setItem succeeds
\* leaves the other entries, each as it was and decodable, in their order;
\* the entry removed is the first one with that text
C8_QueueRebuild ==
    [][\A g \in RebuildEdits : (last'.op = "deleteItem" /\ last'.ret = "true" /\ DeleteItem(g)) =>
           LET seg == Segments(store)
               entry == _serializeGraphicNoToken(g)
               after == Segments(store')
           IN  \E k \in 1..Len(seg) :
                   /\ seg[k] = entry
                   /\ \A j \in 1..(k - 1) : seg[j] # entry
                   /\ after = [i \in 1..(Len(seg) - 1) |-> IF i < k THEN seg[i] ELSE seg[i + 1]]
                   /\ \A i \in 1..Len(after) : ~DeserializeThrows(after[i])]_vars

\* an entry was removed from a queue of MaxLen entries
C8_Witness ==
    /\ last.op = "deleteItem" /\ last.ret = "true"
    /\ Len(Segments(store)) = MaxLen - 1

\* the step handles the answer to the replay call made for the entry seg
OwnCompletion(seg) ==
    \E i \in 1..Len(pending), success \in BOOLEAN, id \in ObjectIds :
        /\ pending[i].mCallback = "replay"
        /\ ~DeserializeThrows(seg)
        /\ pending[i].edit = _deserializeGraphic(seg)
        /\ Complete(i, success, id)

\* the step is a removal, by content or by objectid, that matches the entry seg
MatchingRemoval(seg) ==
    \/ \E g \in Edits : _serializeGraphicNoToken(g) = seg /\ DeleteItem(g)
    \/ \E objectId \in HostObjectIds : ObjectIdStep(seg, objectId) = "found" /\ DeleteObjectId(objectId)

\* C9: an entry of the queue that JSON.parse accepts is in the queue after
\* every step, with the same text, unless the step handled the answer to its
\* own replay call or was a removal that matches it
C9_Lifecycle ==
    [][\A i \in 1..Len(Segments(store)) :
           LET seg == Segments(store)[i]
               after == Segments(store')
           IN  (Parses(seg) /\ ~(\E j \in 1..Len(after) : after[j] = seg))
               => (OwnCompletion(seg) \/ MatchingRemoval(seg))]_vars

\* the removal of a step found its target in the queue
TargetPresent ==
    \/ \E g \in Edits : DeleteItem(g) /\ store # Null /\ FirstEqual(Split(store), _serializeGraphicNoToken(g)) # 0
    \/ \E objectId \in HostObjectIds :
           /\ DeleteObjectId(objectId)
           /\ store # Null
           /\ \E i \in 1..Len(Split(store)) : ObjectIdStep(Split(store)[i], objectId) = "found"
           /\ ~last'.threw

\* the result a removal reported: the value _deleteItemInLocalStore returned,
\* the argument _deleteObjectIdInLocalStore gave to callback
Reported(l) == IF l.op = "deleteItem" THEN l.ret ELSE l.cb[1].success

\* C11: a removal, by content or by objectid, that found its target and
\* reports false (its setItem threw) leaves the queue with every entry it
\* had, in the same order
C11_RemovalWriteFailure ==
    [][(last'.op \in {"deleteItem", "deleteObjectId"} /\ TargetPresent /\ Reported(last') = "false")
       => Segments(store') = Segments(store)]_vars

-----------------------------------------------------------------------------
(* Replay *)

\* C1: a queue of n >= 1 entries, the listener armed, one 'up' event, every
\* call answered with success: after the n answers the queue holds no entry
C1_ReplayEmptiesQueue ==
    (scene.stage = "replaying" /\ scene.n >= 1 /\ scene.done = scene.n) => Segments(store) = <<>>

\* C2: in the same scenario, with an index that held records before the
\* event, the index holds after the n answers n more records that JSON.parse
\* accepts than before
C2_ReplayLogsOutcomes ==
    (scene.stage = "replaying" /\ scene.n >= 1 /\ scene.done = scene.n /\ scene.ix # Null)
    => Len(IndexRecords(index)) = Len(IndexRecords(scene.ix)) + scene.n

\* C7: one queued entry, the listener armed, an 'up' event and the call
\* fails: the queue string and the index string stay as they were before
\* the event, and after 'down' and the next 'up' the same edit is sent again
C7_RetryOnError ==
    /\ scene.stage \in {"failed", "down", "up2"} => store = scene.q /\ index = scene.ix
    /\ scene.stage = "up2" => scene.again /\ Len(pending) = 1 /\ pending[1].edit = scene.m

\* the call failed, 'down' and 'up' followed, and the edit was sent again
C7_Witness == scene.stage = "up2" /\ scene.again /\ Len(Segments(store)) = 1

\* C12: however often the listener was armed, by offline submits and by
\* _init, one onlineStatusHandler is registered, and an 'up' event that
\* reaches it sends each queued edit once
C12_ArmingIdempotent ==
    [][/\ handlers' <= 1
       /\ handlers' = listener'
       /\ (last'.op = "up" /\ handlers = 1 /\ store # Null)
          => /\ pending' = pending \o _reestablishedInternet(store).calls
             /\ ~last'.threw => Len(pending') = Len(pending) + Len(Segments(store))]_vars

\* two edits were queued offline, each submit arming, and one 'up' event sent
\* each of them once
C12_Witness ==
    /\ last.op = "up" /\ handlers = 1
    /\ Len(Segments(store)) = 2
    /\ Len(pending) = 2 /\ pending[1].edit # pending[2].edit
    /\ \A i \in 1..2 : pending[i].mCallback = "replay"

-----------------------------------------------------------------------------
(* Online edits *)

\* C13: a submit taken while the internet is up issues one call for the
\* edit, whatever is queued or in flight already, and neither that step nor
\* the step in which the call is answered or fails changes the queue string
\* or the index string
C13_OnlineBypassesQueue ==
    [][/\ \A g \in Edits :
              (/\ last'.op = "applyEdits" /\ last'.alert = "none"
               /\ internet = "up"
               /\ applyEdits(g))
              => /\ pending' = Append(pending, Call(g, "online", <<>>, NoEdit))
                 /\ store' = store /\ index' = index
       /\ \A i \in 1..Len(pending) :
              (/\ Len(pending') = Len(pending) - 1
               /\ pending[i].mCallback = "online"
               /\ \/ \E success \in BOOLEAN, id \in ObjectIds : Complete(i, success, id)
                  \/ Error(i))
              => store' = store /\ index' = index]_vars

\* the same edit was submitted online twice, with a queue stored: two calls
C13_Witness ==
    /\ last.op = "applyEdits"
    /\ Len(pending) = 2
    /\ pending[1] = pending[2] /\ pending[1].mCallback = "online"
    /\ Len(Segments(store)) >= 1

\* C14: when the call of an online submit is answered, the callback the host
\* gave to applyEdits is called with the success flag and the id of the
\* answer; when the call fails it is called with false
C14_OnlineReportsOutcome ==
    [][\A i \in 1..Len(pending) :
           /\ (last'.op = "complete" /\ pending[i].mCallback = "online")
              => \A success \in BOOLEAN, id \in ObjectIds :
                     Complete(i, success, id) => last'.cb = <<Cb("callback", FALSE, Tri(success), "none", id)>>
           /\ (last'.op = "error" /\ pending[i].mCallback = "online" /\ Error(i))
              => /\ Len(last'.cb) = 1
                 /\ last'.cb[1].fn = "callback" /\ last'.cb[1].success = "false"]_vars

-----------------------------------------------------------------------------
(* Codec *)

-----------------------------------------------------------------------------
(* Index *)

\* C16: a step that writes the index string adds one record to the records
\* the index lists (split at the token, accepted by JSON.parse) and leaves
\* every record it listed before in its place, unchanged
C16_IndexAppendOnly ==
    [][index' # index =>
           LET before == IndexRecords(index)
               after == IndexRecords(index')
           IN  /\ Len(after) = Len(before) + 1
               /\ \A i \in 1..Len(before) : after[i] = before[i]]_vars

\* C17: _getItemLocalStoreIndex(objectId) returns a record of the index
\* when one has that id and null when none has, on every index the appends
\* produce and on the absent one; it throws nothing and leaves the index alone
C17_OutcomeLookup ==
    [][\A objectId \in FindIds : (last'.op = "getItem" /\ GetItem(objectId)) =>
           /\ ~last'.threw
           /\ last'.ret = IF \E i \in 1..Len(IndexRecords(index)) : JSONparse(IndexRecords(index)[i]).id = objectId
                          THEN "found" ELSE "null"
           /\ index' = index]_vars

-----------------------------------------------------------------------------
(* Restart and replay trigger *)

\* C18: when the page is loaded with a queue stored, every stored edit is
\* sent without a new applyEdits: by _init itself when the internet is up,
\* else by the first 'up' event after it
C18_RestartSurvival ==
    [][/\ (last'.op = "init" /\ internet' = "up" /\ store # Null)
          => Decodable(store) = [j \in 1..Len(pending') |-> pending'[j].edit]
       /\ scene'.stage = "sent" => scene'.again]_vars

\* a step in which _reestablishedInternet hands an entry of the queue to
\* _layerEditManager
ReplayStarts ==
    /\ issued' > issued
    /\ pending' # <<>>
    /\ pending'[Len(pending')].mCallback = "replay"

\* C19 as stated: a replay starts on an 'up' event alone, never on a 'down'
\* event, a duplicate or index event, or the initialisation
C19_ReplayOnlyOnUp ==
    [][ReplayStarts => (last'.op = "up" /\ Decodable(store) # <<>>)]_vars

\* C19: a replay starts only on an 'up' event that reaches a registered
\* handler, or in the initialisation when Offline.state is 'up', and in both
\* cases only when the queue holds an edit; 'down' events and the engine's
\* other events start none
C19_ReplayTrigger ==
    [][ReplayStarts =>
          /\ Decodable(store) # <<>>
          /\ \/ last'.op = "up" /\ handlers > 0
             \/ last'.op = "init" /\ internet' = "up"]_vars

\* the initialisation found a queue with the internet up and has sent its entry
C19_Witness ==
    /\ last.op = "init"
    /\ internet = "up"
    /\ pending # <<>>
    /\ pending[1].mCallback = "replay"
    /\ Decodable(store) # <<>>

\* C20: when an 'up' event has started a replay whose calls are still in
\* flight and no 'down' event came since, a further 'up' event sends nothing
C20_RepeatedUpNoOp ==
    [][(/\ internet = "up"
        /\ \E i \in 1..Len(pending) : pending[i].mCallback = "replay"
        /\ last'.op = "up") => issued' = issued]_vars

-----------------------------------------------------------------------------
(* Replay pass *)

\* the calls in flight that _reestablishedInternet issued
ReplayCalls(calls) == SelectSeq(calls, LAMBDA c : c.mCallback = "replay")

\* C21: an 'up' event that reaches the one registered handler issues, in one
\* step and before any answer is handled, one call for every edit the queue
\* string holds at that moment, in the order of the queue, and changes
\* neither string; inserts and removals made afterwards leave the calls in
\* flight as they are
C21_ReplaySnapshotOrder ==
    [][/\ (last'.op = "up" /\ handlers = 1) =>
              /\ Len(pending') = Len(pending) + Len(Decodable(store))
              /\ \A j \in 1..Len(Decodable(store)) :
                     /\ Len(pending) + j <= Len(pending')
                     /\ pending'[Len(pending) + j].edit = Decodable(store)[j]
              /\ \A j \in 1..Len(pending) : pending'[j] = pending[j]
              /\ store' = store /\ index' = index
       /\ last'.op = "other" => ReplayCalls(pending') = ReplayCalls(pending)]_vars

\* the edits the calls added to the calls in flight carry
NewCalls == [j \in 1..(Len(pending') - Len(pending)) |-> pending'[Len(pending) + j].edit]

\* C22: an 'up' event that reaches the one registered handler leaves the
\* queue string as it is and issues a call for every entry whose layer
\* getGraphicsLayerById finds, also for those that stand after an entry
\* whose layer it does not find
C22_UnresolvableLayer ==
    [][(last'.op = "up" /\ handlers = 1 /\ store # Null) =>
           /\ store' = store
           /\ NewCalls = SelectSeq(Decodable(store), LAMBDA g : LayerFound(g.layer))]_vars

\* the queue string holds the entry _serializeGraphic wrote for the edit e
\* as one of its segments
Holds(q, e) == \E k \in 1..Len(Segments(q)) : Segments(q)[k] = _serializeGraphicNoToken(e)

\* C23: when the call of a replayed entry is answered with success false and
\* the index is written, the record written last says success false and the
\* entry of that call is no longer in the queue
C23_RemovalOnCompletion ==
    [][\A i \in 1..Len(pending), id \in ObjectIds :
           (/\ last'.op = "complete"
            /\ pending[i].mCallback = "replay"
            /\ Holds(store, pending[i].edit)
            /\ Complete(i, FALSE, id)
            /\ index' # index)
           => /\ index'[Len(index') - 1].v.success = FALSE
              /\ ~Holds(store', pending[i].edit)]_vars

-----------------------------------------------------------------------------
(* Dispatch and attribution *)

\* C24: a queued edit is sent as the operation of its kind, and when the
\* call is answered with one result for that kind and none for the other
\* two, the function given to _layerEditManager is called once with the
\* success flag and the object id of that result, for updates as for adds
\* and deletes
C24_OperationDispatch ==
    [][\A i \in 1..Len(pending), success \in BOOLEAN, id \in ObjectIds :
           (last'.op = "complete" /\ pending[i].mCallback = "replay" /\ Complete(i, success, id))
           => /\ Operation(pending[i].edit.enumValue) =
                     (IF pending[i].edit.enumValue = ADD THEN "adds"
                      ELSE IF pending[i].edit.enumValue = UPDATE THEN "updates" ELSE "deletes")
              /\ last'.cb = <<Cb("replay", FALSE, Tri(success), "none", id)>>]_vars

\* C29: when a replay has calls for several entries in flight and one of
\* them is answered, the index object written carries the layer, operation
\* and geometry type of the entry that call was made for, and the text
\* handed to _deleteItemInLocalStore is the record of that entry
C29_OutcomeAttribution ==
    [][\A i \in 1..Len(pending), success \in BOOLEAN, id \in ObjectIds :
           (/\ last'.op = "complete"
            /\ pending[i].mCallback = "replay"
            /\ \E j \in 1..Len(pending) : pending[j].mCallback = "replay" /\ pending[j].edit # pending[i].edit
            /\ Complete(i, success, id)
            /\ index' # index)
           => LET e == pending[i].edit
              IN  /\ index'[Len(index') - 1].v = _indexObject(e.layer, id, e.enumValue, success, e.geometry.type)
                  /\ pending[i].item = _serializeGraphicNoToken(e)]_vars

-----------------------------------------------------------------------------
(* Removal from a queue with entries JSON.parse rejects *)

\* the queue string holds a segment JSON.parse rejects
Unparsable(q) == \E k \in 1..Len(Segments(q)) : ~Parses(Segments(q)[k])

\* the segments of q that JSON.parse accepts
Accepted(q) == SelectSeq(Segments(q), Parses)

\* the sequence ps without the first of its elements whose position is in hits
WithoutFirst(ps, hits) ==
    IF hits = {} THEN ps ELSE Splice(ps, CHOOSE k \in hits : \A j \in hits : k <= j)

\* the segment is a record whose attributes carry the objectid
HasObjectId(seg, objectId) ==
    Parses(seg) /\ JSONparse(seg).attributes.t = "string" /\ JSONparse(seg).attributes.objectid = objectId

\* C25: a removal, by content or by objectid, from a queue that holds its
\* target and a segment JSON.parse rejects, before or after the target,
\* reports true when its setItem does not throw, and leaves in the queue
\* the other segments JSON.parse accepts, in their order, and no other
C25_UnparsableDiscarded ==
    [][/\ \A g \in Edits :
              (/\ last'.op = "deleteItem"
               /\ store # Null /\ Unparsable(store) /\ Holds(store, g)
               /\ DeleteItem(g)
               /\ store' # Null)
              => /\ last'.ret = "true"
                 /\ Segments(store') = WithoutFirst(Accepted(store), {k \in 1..Len(Accepted(store)) : Accepted(store)[k] = _serializeGraphicNoToken(g)})
       /\ \A objectId \in HostObjectIds :
              (/\ last'.op = "deleteObjectId"
               /\ store # Null /\ Unparsable(store)
               /\ \E k \in 1..Len(Segments(store)) : HasObjectId(Segments(store)[k], objectId)
               /\ DeleteObjectId(objectId)
               /\ store' # Null)
              => /\ ~last'.threw
                 /\ last'.cb = <<Cb("callback", FALSE, "true", "none", 0)>>
                 /\ Segments(store') = WithoutFirst(Accepted(store), {k \in 1..Len(Accepted(store)) : HasObjectId(Accepted(store)[k], objectId)})]_vars

-----------------------------------------------------------------------------
(* Attributes Hydrate cannot stringify *)

\* C26: an offline insert of an edit whose attributes Hydrate cannot
\* stringify puts its record into the queue; getStore() then reads the
\* queue without an exception, and so does the replay of an 'up' event,
\* which issues a call for every entry
C26_EncodingFailureNonFatal ==
    [][/\ \A g \in EncodeEdits :
              (/\ last'.op = "applyEdits" /\ last'.alert = "none"
               /\ HydrateThrows(g.attributes)
               /\ internet = "down"
               /\ OfflineEdit(g, TRUE))
              => Holds(store', g) /\ last'.cb[1].success \in {"true", "null"}
       /\ last'.op = "getStore" => ~last'.threw
       /\ (last'.op = "up" /\ handlers = 1 /\ store # Null)
              => ~last'.threw /\ Len(NewCalls) = Len(Segments(store))]_vars

-----------------------------------------------------------------------------
(* The two storage alerts *)

\* C27: a submit made while the storage in use alone is above
\* LOCAL_STORAGE_MAX_LIMIT is turned away with the alert "You are almost
\* over the local storage limit", and the alert "The graphic you are editing
\* is too big" is shown only when the storage in use is within the limit
\* and the edit does not fit
C27_TwoRejections ==
    [][\A g \in Edits : (last'.op = "applyEdits" /\ applyEdits(g)) =>
           /\ Occupancy > LOCAL_STORAGE_MAX_LIMIT => last'.alert = "almostOver"
           /\ last'.alert = "tooBig" =>
                  /\ Occupancy <= LOCAL_STORAGE_MAX_LIMIT
                  /\ Occupancy + apprxGraphicSize(g) > LOCAL_STORAGE_MAX_LIMIT]_vars

-----------------------------------------------------------------------------
(* Listener and queue *)

\* C28: whenever the queue holds an entry, one onlineStatusHandler is
\* registered, also after _init found a queue with the internet up and
\* replayed it
C28_ArmedWhilePending == Segments(store) # <<>> => (listener = 1 /\ handlers >= 1)

-----------------------------------------------------------------------------
(* Replay of a queue with entries JSON.parse rejects *)

\* C30: an 'up' event that reaches the one registered handler while the
\* queue holds a segment JSON.parse rejects among its records issues a
\* call for every record, those behind that segment included
C30_CorruptEntryNoBlock ==
    [][(last'.op = "up" /\ handlers = 1 /\ store # Null /\ Unparsable(store))
       => NewCalls = Decodable(store)]_vars

====
